---- MODULE Spec2Model ----
(***************************************************************************)
(* Model of the two report modules src/eda_borrower.py and                 *)
(* src/eda_credit_history.py: the report object (dataset reference and     *)
(* target column name), every report method, and the two pipeline          *)
(* functions.  The dataset is a table of named columns; a cell is <<>>     *)
(* (missing) or <<v>> (present).  Fractions are kept exact as reduced      *)
(* num/den pairs; the standard deviation is kept as its square.            *)
(***************************************************************************)
EXTENDS Integers, Sequences, FiniteSets, TLC

VARIABLES
    eda,     \* the report object: [df, target_col] (eda.df is the caller's dataset)
    given,   \* the dataset and target column name the object was constructed with
    build,   \* library behaviour the repository does not pin: [observed, ties]
    last,    \* the last call made on the object: [op, args, out, invoked]
    memo     \* a result the caller kept: [op, args, out, since], or NoCall; since
             \* counts the calls made after it was kept, up to 2

vars == <<eda, given, build, last, memo>>

----------------------------------------------------------------------------
(* Column universes and target default.                                    *)

BORROWER_COLS ==
    << "id", "member_id",
       "emp_title", "emp_length",
       "home_ownership",
       "annual_inc", "annual_inc_joint",
       "verification_status", "verification_status_joint",
       "zip_code", "addr_state",
       "purpose", "title", "desc",
       "issue_d", "pymnt_plan", "policy_code",
       "url" >>

CREDIT_NUMERIC_COLS ==
    << "dti", "dti_joint",
       "delinq_2yrs",
       "mths_since_last_delinq", "mths_since_last_record", "mths_since_last_major_derog",
       "open_acc", "total_acc", "pub_rec", "acc_now_delinq",
       "revol_bal", "revol_util", "total_rev_hi_lim",
       "tot_coll_amt", "tot_cur_bal", "total_bal_il",
       "open_acc_6m", "open_il_6m", "open_il_12m", "open_il_24m",
       "mths_since_rcnt_il",
       "open_rv_12m", "open_rv_24m",
       "max_bal_bc",
       "all_util",
       "inq_last_6mths", "inq_last_12m", "inq_fi",
       "collections_12_mths_ex_med" >>

DEFAULT_TARGET == "loan_status"

FREQ_COLS == << "home_ownership", "addr_state", "purpose" >>

INCOME_COLS == << "annual_inc", "annual_inc_joint" >>

----------------------------------------------------------------------------
(* Values: cells, exact fractions, outcomes of a call.                     *)

NA == <<>>

IsNa(cell) == Len(cell) = 0

NaN == [nan |-> TRUE]

RECURSIVE GCD(_, _)
GCD(a, b) == IF b = 0 THEN a ELSE GCD(b, a % b)

Abs(a) == IF a < 0 THEN -a ELSE a

\* a / b as the library's float division gives it: not-a-number for 0 / 0
Frac(a, b) ==
    IF b = 0 THEN NaN
    ELSE LET g == GCD(Abs(a), Abs(b))
             s == IF b < 0 THEN -1 ELSE 1
         IN  [nan |-> FALSE, num |-> (s * a) \div g, den |-> (s * b) \div g]

Ok(v) == [ok |-> TRUE, value |-> v]

Raise(kind, what) == [ok |-> FALSE, error |-> kind, arg |-> what]

RangeOf(s) == {s[i] : i \in 1..Len(s)}

RECURSIVE SumSeq(_)
SumSeq(s) == IF Len(s) = 0 THEN 0 ELSE Head(s) + SumSeq(Tail(s))

----------------------------------------------------------------------------
(* Series primitives of the table library, as the report methods use them. *)

HasCol(df, col) == col \in DOMAIN df.cols

NRows(df) == df.n

IsNumericDtype(dtype) == dtype \in {"int64", "float64"}

\* Series.isna(): one 0/1 flag per row
isna(series) == [i \in 1..Len(series.vals) |-> IF IsNa(series.vals[i]) THEN 1 ELSE 0]

\* Series.dropna() as plain values
dropna(series) ==
    LET kept == SelectSeq(series.vals, LAMBDA c : ~IsNa(c))
    IN  [i \in 1..Len(kept) |-> kept[i][1]]

\* Series.mean() of a 0/1 or numeric series without missing values
MeanOf(values) == Frac(SumSeq(values), Len(values))

\* Series.nunique(dropna=True)
nunique(series) == Cardinality(RangeOf(dropna(series)))

\* insertion of x into a sequence sorted ascending (after its equals: stable)
RECURSIVE InsertSorted(_, _)
InsertSorted(s, x) ==
    IF Len(s) = 0 THEN <<x>>
    ELSE IF x < Head(s) THEN <<x>> \o s
    ELSE <<Head(s)>> \o InsertSorted(Tail(s), x)

RECURSIVE SortAsc(_)
SortAsc(s) == IF Len(s) = 0 THEN <<>> ELSE InsertSorted(SortAsc(Tail(s)), Head(s))

\* the j/q quantile of the values, by linear interpolation between the two
\* closest ranks (the library's default), exact; not-a-number on no values
Quantile(values, j, q) ==
    LET sorted == SortAsc(values)
        n      == Len(sorted)
        h      == (n - 1) * j
        lo     == h \div q
        rem    == h % q
    IN  IF n = 0 THEN NaN
        ELSE IF rem = 0 THEN Frac(sorted[lo + 1], 1)
        ELSE Frac(q * sorted[lo + 1] + rem * (sorted[lo + 2] - sorted[lo + 1]), q)

\* the square of Series.std() (sample variance, ddof = 1); not-a-number below 2 values
VarOf(values) ==
    LET n  == Len(values)
        s1 == SumSeq(values)
        s2 == SumSeq([i \in 1..n |-> values[i] * values[i]])
    IN  IF n < 2 THEN NaN ELSE Frac(n * s2 - s1 * s1, n * (n - 1))

MinOf(values) == IF Len(values) = 0 THEN NaN ELSE Frac(SortAsc(values)[1], 1)

MaxOf(values) == IF Len(values) = 0 THEN NaN ELSE Frac(SortAsc(values)[Len(values)], 1)

\* distinct values in order of first occurrence
RECURSIVE FirstSeen(_, _)
FirstSeen(values, acc) ==
    IF Len(values) = 0 THEN acc
    ELSE FirstSeen(Tail(values),
                   IF Head(values) \in RangeOf(acc) THEN acc ELSE Append(acc, Head(values)))

Reverse(s) == [i \in 1..Len(s) |-> s[Len(s) + 1 - i]]

CountOf(values, v) == Cardinality({i \in 1..Len(values) : values[i] = v})

\* insertion of entry x into entries sorted by descending count (after its equals)
RECURSIVE InsertByCount(_, _)
InsertByCount(s, x) ==
    IF Len(s) = 0 THEN <<x>>
    ELSE IF x[2] > Head(s)[2] THEN <<x>> \o s
    ELSE <<Head(s)>> \o InsertByCount(Tail(s), x)

RECURSIVE SortByCountDesc(_)
SortByCountDesc(s) ==
    IF Len(s) = 0 THEN <<>>
    ELSE InsertByCount(SortByCountDesc(SubSeq(s, 1, Len(s) - 1)), s[Len(s)])

\* Series.value_counts(): <<value, count>> of the non-missing values, by
\* descending count; the order among equal counts is the library's (ties)
value_counts(series, ties) ==
    LET values == dropna(series)
        seen   == FirstSeen(values, <<>>)
        keys   == IF ties = "first_seen" THEN seen ELSE Reverse(seen)
    IN  SortByCountDesc([i \in 1..Len(keys) |-> <<keys[i], CountOf(values, keys[i])>>])

\* the last k entries instead of the first
tail(s, k) == SubSeq(s, IF k < Len(s) THEN Len(s) - k + 1 ELSE 1, Len(s))

\* Series.head(k) for k >= 0
head(s, k) == SubSeq(s, 1, IF k < Len(s) THEN k ELSE Len(s))

----------------------------------------------------------------------------
(* BorrowerProfileEDA                                                      *)

\* the loop body with the missing share taken of the present cells
StructureRowOfPresent(df, col) ==
    [column      |-> col,
     dtype       |-> df.cols[col].dtype,
     n_missing   |-> SumSeq(isna(df.cols[col])),
     missing_pct |-> Frac(SumSeq(isna(df.cols[col])), Len(dropna(df.cols[col]))),
     n_unique    |-> nunique(df.cols[col])]

\* one pass of the loop body of structure_summary
StructureRow(df, col) ==
    [column      |-> col,
     dtype       |-> df.cols[col].dtype,
     n_missing   |-> SumSeq(isna(df.cols[col])),
     missing_pct |-> MeanOf(isna(df.cols[col])),
     n_unique    |-> nunique(df.cols[col])]

RECURSIVE StructureLoop(_, _, _)
StructureLoop(df, i, dataframe_list) ==
    IF i > Len(BORROWER_COLS) THEN Ok(dataframe_list)
    ELSE IF ~HasCol(df, BORROWER_COLS[i]) THEN Raise("KeyError", BORROWER_COLS[i])
    ELSE StructureLoop(df, i + 1,
                       Append(dataframe_list, StructureRow(df, BORROWER_COLS[i])))

\* a method call gives its outcome and the object as the call leaves it
structure_summary(e) == [out |-> StructureLoop(e.df, 1, <<>>), self |-> e]

\* DataFrame.describe() row of a numeric column
DescribeNumeric(col, series) ==
    LET values == dropna(series)
    IN  [column |-> col,
         count  |-> Len(values),
         mean   |-> MeanOf(values),
         std2   |-> VarOf(values),
         min    |-> MinOf(values),
         q25    |-> Quantile(values, 1, 4),
         q50    |-> Quantile(values, 2, 4),
         q75    |-> Quantile(values, 3, 4),
         max    |-> MaxOf(values)]

\* DataFrame.describe() row of a non-numeric column
DescribeObject(col, series, ties) ==
    LET vc == value_counts(series, ties)
    IN  [column |-> col,
         count  |-> Len(dropna(series)),
         unique |-> Len(vc),
         top    |-> IF Len(vc) = 0 THEN NA ELSE <<vc[1][1]>>,
         freq   |-> IF Len(vc) = 0 THEN NA ELSE <<vc[1][2]>>]

\* describe().T: the numeric columns when there is one, else every column
IncomeOut(e, ties) ==
    LET absent  == SelectSeq(INCOME_COLS, LAMBDA c : ~HasCol(e.df, c))
        numeric == SelectSeq(INCOME_COLS, LAMBDA c : IsNumericDtype(e.df.cols[c].dtype))
    IN  IF Len(absent) > 0 THEN Raise("KeyError", absent[1])
        ELSE IF Len(numeric) > 0
        THEN Ok([i \in 1..Len(numeric) |-> DescribeNumeric(numeric[i], e.df.cols[numeric[i]])])
        ELSE Ok([i \in 1..Len(INCOME_COLS) |->
                    DescribeObject(INCOME_COLS[i], e.df.cols[INCOME_COLS[i]], ties)])

income_summary(e, ties) == [out |-> IncomeOut(e, ties), self |-> e]

RECURSIVE FreqLoop(_, _, _, _, _)
FreqLoop(df, ties, max_levels, i, info_dict) ==
    IF i > Len(FREQ_COLS) THEN Ok(info_dict)
    ELSE IF ~HasCol(df, FREQ_COLS[i]) THEN Raise("KeyError", FREQ_COLS[i])
    ELSE FreqLoop(df, ties, max_levels, i + 1,
                  Append(info_dict,
                         <<FREQ_COLS[i],
                           head(value_counts(df.cols[FREQ_COLS[i]], ties), max_levels)>>))

categorical_freqs(e, ties, max_levels) ==
    [out |-> FreqLoop(e.df, ties, max_levels, 1, <<>>), self |-> e]

\* the group keys with the missing value kept as a group (dropna=False)
GroupKeysWithMissing(df, col) ==
    {IF IsNa(df.cols[col].vals[i]) THEN "NaN" ELSE df.cols[col].vals[i][1] :
        i \in 1..NRows(df)}

\* the group keys of df.groupby(col): the non-missing distinct values
GroupKeys(df, col) == RangeOf(dropna(df.cols[col]))

\* the non-missing target values of the rows whose col value is key
GroupTarget(df, col, target_col, key) ==
    LET rows == SelectSeq([i \in 1..NRows(df) |-> i],
                          LAMBDA i : df.cols[col].vals[i] = <<key>>
                                     /\ ~IsNa(df.cols[target_col].vals[i]))
    IN  [k \in 1..Len(rows) |-> df.cols[target_col].vals[rows[k]][1]]

CategoryOut(e, col) ==
    IF ~HasCol(e.df, col) THEN Raise("KeyError", col)
    ELSE IF ~HasCol(e.df, e.target_col) THEN Raise("KeyError", e.target_col)
    ELSE IF ~IsNumericDtype(e.df.cols[e.target_col].dtype)
    THEN Raise("TypeMismatch", e.target_col)
    ELSE Ok([key \in GroupKeys(e.df, col) |->
                MeanOf(GroupTarget(e.df, col, e.target_col, key))])

default_rate_by_category(e, col) == [out |-> CategoryOut(e, col), self |-> e]

\* borrower_eda_steps: the step names in declaration order, and each step's producer
BORROWER_STEPS ==
    << "structure", "income", "freqs", "default_by_home_ownership", "default_by_purpose" >>

FREQS_MAX_LEVELS == 10

\* the steps with the purpose step a copy of the home_ownership step
borrower_eda_steps_copied(e, ties, name) ==
    CASE name = "structure" -> structure_summary(e)
      [] name = "income" -> income_summary(e, ties)
      [] name = "freqs" -> categorical_freqs(e, ties, FREQS_MAX_LEVELS)
      [] name = "default_by_home_ownership" -> default_rate_by_category(e, "home_ownership")
      [] name = "default_by_purpose" -> default_rate_by_category(e, "home_ownership")

borrower_eda_steps(e, ties, name) ==
    CASE name = "structure" -> structure_summary(e)
      [] name = "income" -> income_summary(e, ties)
      [] name = "freqs" -> categorical_freqs(e, ties, FREQS_MAX_LEVELS)
      [] name = "default_by_home_ownership" -> default_rate_by_category(e, "home_ownership")
      [] name = "default_by_purpose" -> default_rate_by_category(e, "purpose")

\* the loop with a step's failure caught and the step left out
RECURSIVE BorrowerLoopCatching(_, _, _, _, _)
BorrowerLoopCatching(e, ties, i, functions_dict, invoked) ==
    IF i > Len(BORROWER_STEPS)
    THEN [out |-> Ok(functions_dict), self |-> e, invoked |-> invoked]
    ELSE LET k == BORROWER_STEPS[i]
             v == borrower_eda_steps(e, ties, k)
         IN  BorrowerLoopCatching(v.self, ties, i + 1,
                                  IF v.out.ok THEN Append(functions_dict, <<k, v.out.value>>)
                                  ELSE functions_dict,
                                  Append(invoked, k))

\* the loop of run_borrower_eda_pipeline from step i on: a raising step ends the
\* call with its own error; invoked lists the steps called so far
RECURSIVE BorrowerLoop(_, _, _, _, _)
BorrowerLoop(e, ties, i, functions_dict, invoked) ==
    IF i > Len(BORROWER_STEPS)
    THEN [out |-> Ok(functions_dict), self |-> e, invoked |-> invoked]
    ELSE LET k == BORROWER_STEPS[i]
             v == borrower_eda_steps(e, ties, k)
         IN  IF ~v.out.ok
             THEN [out |-> v.out, self |-> v.self, invoked |-> Append(invoked, k)]
             ELSE BorrowerLoop(v.self, ties, i + 1,
                               Append(functions_dict, <<k, v.out.value>>),
                               Append(invoked, k))

run_borrower_eda_pipeline(e, ties) == BorrowerLoop(e, ties, 1, <<>>, <<>>)

----------------------------------------------------------------------------
(* CreditHistoryEDA                                                        *)

FracLess(a, b) == a.num * b.den < b.num * a.den

\* df.select_dtypes(include='number').dtypes.values
NumberDtypes(df) ==
    {df.cols[c].dtype : c \in {d \in DOMAIN df.cols : IsNumericDtype(df.cols[d].dtype)}}

\* one pass of the loop body of credit_structure_summary
CreditRow(df, col) ==
    LET series  == df.cols[col]
        numeric == series.dtype \in NumberDtypes(df)
    IN  [column      |-> col,
         dtype       |-> series.dtype,
         n_missing   |-> SumSeq(isna(series)),
         missing_pct |-> MeanOf(isna(series)),
         mean        |-> IF numeric THEN MeanOf(dropna(series)) ELSE NaN,
         std2        |-> IF numeric THEN VarOf(dropna(series)) ELSE NaN]

\* the loop stopping one column short of the universe
RECURSIVE CreditLoopShort(_, _, _)
CreditLoopShort(df, i, dataframe_list) ==
    IF i > Len(CREDIT_NUMERIC_COLS) - 1 THEN Ok(dataframe_list)
    ELSE IF ~HasCol(df, CREDIT_NUMERIC_COLS[i]) THEN Raise("KeyError", CREDIT_NUMERIC_COLS[i])
    ELSE CreditLoopShort(df, i + 1,
                         Append(dataframe_list, CreditRow(df, CREDIT_NUMERIC_COLS[i])))

RECURSIVE CreditLoop(_, _, _)
CreditLoop(df, i, dataframe_list) ==
    IF i > Len(CREDIT_NUMERIC_COLS) THEN Ok(dataframe_list)
    ELSE IF ~HasCol(df, CREDIT_NUMERIC_COLS[i]) THEN Raise("KeyError", CREDIT_NUMERIC_COLS[i])
    ELSE CreditLoop(df, i + 1,
                    Append(dataframe_list, CreditRow(df, CREDIT_NUMERIC_COLS[i])))

credit_structure_summary(e) == [out |-> CreditLoop(e.df, 1, <<>>), self |-> e]

\* the bins + 1 quantile edges of qcut, duplicates dropped (duplicates='drop')
QuantileEdges(values, bins) ==
    FirstSeen([j \in 1..(bins + 1) |-> Quantile(values, j - 1, bins)], <<>>)

\* the bucket of value v with the lowest edge left out (include_lowest off)
BucketOfOpenLowest(edges, v) ==
    LET x    == Frac(v, 1)
        hits == {b \in 1..(Len(edges) - 1) :
                    FracLess(edges[b], x) /\ ~FracLess(edges[b + 1], x)}
    IN  IF Len(edges) < 2 \/ hits = {} THEN 0
        ELSE CHOOSE b \in hits : TRUE

\* the bucket of value v: edges[b] < v <= edges[b + 1], the lowest edge included;
\* 0 (no bucket) when fewer than two edges are left
BucketOf(edges, v) ==
    LET x    == Frac(v, 1)
        hits == {b \in 1..(Len(edges) - 1) :
                    FracLess(edges[b], x) /\ ~FracLess(edges[b + 1], x)}
    IN  IF Len(edges) < 2 THEN 0
        ELSE IF x = edges[1] THEN 1
        ELSE IF hits = {} THEN 0
        ELSE CHOOSE b \in hits : TRUE

\* pd.qcut(series, q=bins, duplicates='drop'): the edges and each row's bucket
qcut(series, bins) ==
    LET edges == QuantileEdges(dropna(series), bins)
    IN  [edges |-> edges,
         ids   |-> [i \in 1..Len(series.vals) |->
                       IF IsNa(series.vals[i]) THEN 0
                       ELSE BucketOf(edges, series.vals[i][1])]]

\* the non-missing target values of the rows of bucket b
BucketTarget(df, target_col, ids, b) ==
    LET rows == SelectSeq([i \in 1..NRows(df) |-> i],
                          LAMBDA i : ids[i] = b /\ ~IsNa(df.cols[target_col].vals[i]))
    IN  [k \in 1..Len(rows) |-> df.cols[target_col].vals[rows[k]][1]]

\* groupby(buckets)[target].agg(n_loans="count", default_rate="mean").reset_index():
\* one row per bucket (per bucket that holds a row, when the library groups
\* observed categories only), in bucket order
BucketRows(df, target_col, cut, observed) ==
    LET all   == [b \in 1..(Len(cut.edges) - 1) |-> b]
        shown == IF observed
                 THEN SelectSeq(all, LAMBDA b : b \in RangeOf(cut.ids))
                 ELSE all
    IN  [k \in 1..Len(shown) |->
            LET tv == BucketTarget(df, target_col, cut.ids, shown[k])
            IN  [bucket       |-> <<cut.edges[shown[k]], cut.edges[shown[k] + 1]>>,
                 n_loans      |-> Len(tv),
                 default_rate |-> MeanOf(tv)]]

BucketOut(e, col, bins, observed) ==
    IF ~HasCol(e.df, col) THEN Raise("KeyError", col)
    ELSE IF ~IsNumericDtype(e.df.cols[col].dtype) THEN Raise("TypeMismatch", col)
    ELSE IF ~HasCol(e.df, e.target_col) THEN Raise("KeyError", e.target_col)
    ELSE IF ~IsNumericDtype(e.df.cols[e.target_col].dtype)
    THEN Raise("TypeMismatch", e.target_col)
    ELSE Ok(BucketRows(e.df, e.target_col, qcut(e.df.cols[col], bins), observed))

\* the method with the buckets stored as a new column of the dataset
default_rate_by_bucket_assigning(e, col, bins, observed) ==
    [out  |-> BucketOut(e, col, bins, observed),
     self |-> IF HasCol(e.df, col) /\ IsNumericDtype(e.df.cols[col].dtype)
              THEN [e EXCEPT !.df.cols =
                       [c \in DOMAIN e.df.cols \cup {"bucket"} |->
                           IF c = "bucket"
                           THEN [dtype |-> "category",
                                 vals  |-> [i \in 1..NRows(e.df) |->
                                              <<qcut(e.df.cols[col], bins).ids[i]>>]]
                           ELSE e.df.cols[c]]]
              ELSE e]

\* the method with the rows that miss a value in col dropped from the dataset
default_rate_by_bucket_dropping(e, col, bins, observed) ==
    LET keep == IF HasCol(e.df, col)
                THEN SelectSeq([i \in 1..NRows(e.df) |-> i],
                               LAMBDA i : ~IsNa(e.df.cols[col].vals[i]))
                ELSE [i \in 1..NRows(e.df) |-> i]
        kept == [e EXCEPT !.df = [n    |-> Len(keep),
                                  cols |-> [c \in DOMAIN e.df.cols |->
                                               [dtype |-> e.df.cols[c].dtype,
                                                vals  |-> [k \in 1..Len(keep) |->
                                                              e.df.cols[c].vals[keep[k]]]]]]]
    IN  [out |-> BucketOut(kept, col, bins, observed), self |-> kept]

default_rate_by_bucket(e, col, bins, observed) ==
    [out |-> BucketOut(e, col, bins, observed), self |-> e]

Sgn(a) == IF a < 0 THEN -1 ELSE IF a > 0 THEN 1 ELSE 0

\* the covariance over the variance of other alone (a regression slope)
CorrSlope(x, y) ==
    LET rows == SelectSeq([i \in 1..Len(x.vals) |-> i],
                          LAMBDA i : ~IsNa(x.vals[i]) /\ ~IsNa(y.vals[i]))
        n    == Len(rows)
        a    == [k \in 1..n |-> x.vals[rows[k]][1]]
        b    == [k \in 1..n |-> y.vals[rows[k]][1]]
        sa   == SumSeq(a)
        sb   == SumSeq(b)
        cov  == n * SumSeq([k \in 1..n |-> a[k] * b[k]]) - sa * sb
        db   == n * SumSeq([k \in 1..n |-> b[k] * b[k]]) - sb * sb
    IN  IF n = 0 \/ db = 0 THEN NaN
        ELSE [nan |-> FALSE, sign |-> Sgn(cov), sq |-> Frac(cov * cov, db * db)]

\* Series.corr(other): Pearson's r over the rows where both are present, kept as
\* its sign and its square; not-a-number on no such row or on zero variance
Corr(x, y) ==
    LET rows == SelectSeq([i \in 1..Len(x.vals) |-> i],
                          LAMBDA i : ~IsNa(x.vals[i]) /\ ~IsNa(y.vals[i]))
        n    == Len(rows)
        a    == [k \in 1..n |-> x.vals[rows[k]][1]]
        b    == [k \in 1..n |-> y.vals[rows[k]][1]]
        sa   == SumSeq(a)
        sb   == SumSeq(b)
        cov  == n * SumSeq([k \in 1..n |-> a[k] * b[k]]) - sa * sb
        da   == n * SumSeq([k \in 1..n |-> a[k] * a[k]]) - sa * sa
        db   == n * SumSeq([k \in 1..n |-> b[k] * b[k]]) - sb * sb
    IN  IF n = 0 \/ da * db = 0 THEN NaN
        ELSE [nan |-> FALSE, sign |-> Sgn(cov), sq |-> Frac(cov * cov, da * db)]

RECURSIVE CorrLoop(_, _, _, _)
CorrLoop(df, target_col, i, list_of_corr) ==
    IF i > Len(CREDIT_NUMERIC_COLS) THEN Ok(list_of_corr)
    ELSE LET col == CREDIT_NUMERIC_COLS[i]
         IN  IF ~HasCol(df, col) THEN Raise("KeyError", col)
             ELSE IF ~HasCol(df, target_col) THEN Raise("KeyError", target_col)
             ELSE IF ~IsNumericDtype(df.cols[col].dtype) THEN Raise("TypeMismatch", col)
             ELSE IF ~IsNumericDtype(df.cols[target_col].dtype)
             THEN Raise("TypeMismatch", target_col)
             ELSE CorrLoop(df, target_col, i + 1,
                           Append(list_of_corr,
                                  <<col, Corr(df.cols[col], df.cols[target_col])>>))

correlation_with_default(e) == [out |-> CorrLoop(e.df, e.target_col, 1, <<>>), self |-> e]

\* step_name of credit_history_report: the step names in declaration order
CREDIT_STEPS ==
    << "structure_summary", "dti_buckets", "revol_util_buckets", "correlation_with_default" >>

REPORT_BINS == 5

CreditStep(e, observed, name) ==
    CASE name = "structure_summary" -> credit_structure_summary(e)
      [] name = "dti_buckets" -> default_rate_by_bucket(e, "dti", REPORT_BINS, observed)
      [] name = "revol_util_buckets" ->
             default_rate_by_bucket(e, "revol_util", REPORT_BINS, observed)
      [] name = "correlation_with_default" -> correlation_with_default(e)

RECURSIVE CreditReportLoop(_, _, _, _, _)
CreditReportLoop(e, observed, i, report, invoked) ==
    IF i > Len(CREDIT_STEPS)
    THEN [out |-> Ok(report), self |-> e, invoked |-> invoked]
    ELSE LET name == CREDIT_STEPS[i]
             v    == CreditStep(e, observed, name)
         IN  IF ~v.out.ok
             THEN [out |-> v.out, self |-> v.self, invoked |-> Append(invoked, name)]
             ELSE CreditReportLoop(v.self, observed, i + 1,
                                   Append(report, <<name, v.out.value>>),
                                   Append(invoked, name))

credit_history_report(e, observed) == CreditReportLoop(e, observed, 1, <<>>, <<>>)

----------------------------------------------------------------------------
(* Datasets a caller can hand to the report object.                        *)

MaxRowsMain == 2
MaxRowsIdem == 1
MaxRowsCat == 3
MaxRowsNum == 5
MaxRowsCorr == 4
MaxLevels == 2
MaxBins == 3

CatValues == << "RENT", "OWN", "MORTGAGE" >>
NumValues == << 0, 1, 2 >>

AllCols == RangeOf(BORROWER_COLS) \cup RangeOf(CREDIT_NUMERIC_COLS) \cup {DEFAULT_TARGET}

\* the borrower columns that hold text in the loan dataset
TextCols ==
    {"emp_title", "emp_length", "home_ownership", "verification_status",
     "verification_status_joint", "zip_code", "addr_state", "purpose", "title",
     "desc", "issue_d", "pymnt_plan", "url"}

Builds == [observed : BOOLEAN, ties : {"first_seen", "last_seen"}]

\* the dataset of parameters p: purpose holds cat2 and revol_util num2, every
\* other text column cat and every other numeric column num; the columns of
\* p.absent are missing and those of p.as_object came in as non-numeric
MkColumn(p, c) ==
    LET vals == IF c = DEFAULT_TARGET THEN p.tgt
                ELSE IF c = "purpose" THEN p.cat2
                ELSE IF c \in TextCols THEN p.cat
                ELSE IF c = "revol_util" THEN p.num2
                ELSE p.num
    IN  [dtype |-> IF c \in TextCols \/ c \in p.as_object THEN "object"
                   ELSE IF \E i \in 1..Len(vals) : IsNa(vals[i]) THEN "float64"
                   ELSE "int64",
         vals  |-> vals]

MkDf(p) == [n |-> p.n, cols |-> [c \in AllCols \ p.absent |-> MkColumn(p, c)]]

Params(cat, num, tgt, absent, as_object) ==
    [n |-> Len(tgt), cat |-> cat, cat2 |-> Reverse(cat), num |-> num, num2 |-> Reverse(num),
     tgt |-> tgt, absent |-> absent, as_object |-> as_object]

\* a cell by rank: 0 is missing, r > 0 the r-th value
CellOf(values, r) == IF r = 0 THEN NA ELSE <<values[r]>>

\* the tables of up to maxRows rows, a row being a code in 0..(kinds - 1), rows in
\* nondecreasing code order (the report methods read rows as a bag, but for the
\* order in which value_counts first meets a value; purpose and revol_util hold
\* the reversed order)
RowTables(maxRows, kinds) ==
    UNION {{s \in [1..n -> 0..(kinds - 1)] : \A i \in 1..(n - 1) : s[i] <= s[i + 1]} :
           n \in 0..maxRows}

\* text varies over catValues and the target over 0/1; the numeric cell follows
CatTable(rows, catValues) ==
    Params([i \in 1..Len(rows) |-> CellOf(catValues, rows[i] \div 2)],
           [i \in 1..Len(rows) |-> IF rows[i] % 3 = 0 THEN NA ELSE <<rows[i] % 3>>],
           [i \in 1..Len(rows) |-> <<rows[i] % 2>>], {}, {})

\* numbers vary over numValues and the target over 0/1; the text cell follows
NumTable(rows, numValues) ==
    Params([i \in 1..Len(rows) |-> CellOf(CatValues, rows[i] % (Len(CatValues) + 1))],
           [i \in 1..Len(rows) |-> CellOf(numValues, rows[i] \div 2)],
           [i \in 1..Len(rows) |-> <<rows[i] % 2>>], {}, {})

\* text and number present or missing together, the target 0 or 1
MixTable(rows) ==
    Params([i \in 1..Len(rows) |-> CellOf(CatValues, rows[i] \div 2)],
           [i \in 1..Len(rows) |-> CellOf(NumValues, rows[i] \div 2)],
           [i \in 1..Len(rows) |-> <<rows[i] % 2>>], {}, {})

\* fixed contents of n rows
PlainCat(n) == [i \in 1..n |-> IF i % 2 = 1 THEN <<"RENT">> ELSE NA]
PlainNum(n) == [i \in 1..n |-> IF i % 2 = 1 THEN <<i>> ELSE NA]
PlainTgt(n) == [i \in 1..n |-> <<i % 2>>]

\* a fixed content with one column missing, or one numeric column non-numeric
AbsentFamily(n, columns) ==
    {Params(PlainCat(n), PlainNum(n), PlainTgt(n), {c}, {}) : c \in columns}

ObjectFamily(n, columns) ==
    {Params(PlainCat(n), PlainNum(n), PlainTgt(n), {}, {c}) : c \in columns}

MainFamily ==
    {MixTable(rows) : rows \in RowTables(MaxRowsMain, 4)}
        \cup AbsentFamily(MaxRowsMain,
                          {"id", "annual_inc_joint", "addr_state", "purpose", "url", "dti",
                           "revol_util", "collections_12_mths_ex_med", DEFAULT_TARGET})
        \cup ObjectFamily(MaxRowsMain,
                          {"annual_inc", "dti", "revol_util", "inq_fi", DEFAULT_TARGET})

IdemFamily ==
    {MixTable(rows) : rows \in RowTables(MaxRowsIdem, 4)}
        \cup AbsentFamily(MaxRowsIdem, {"dti", DEFAULT_TARGET})

BorrowerFamily ==
    {CatTable(rows, CatValues) : rows \in RowTables(MaxRowsCat, 2 * (Len(CatValues) + 1))}
        \cup AbsentFamily(MaxRowsCat, RangeOf(BORROWER_COLS) \cup {DEFAULT_TARGET})
        \cup ObjectFamily(MaxRowsCat, {"annual_inc", "annual_inc_joint", DEFAULT_TARGET})

BucketFamily ==
    {NumTable(rows, NumValues) : rows \in RowTables(MaxRowsNum, 2 * (Len(NumValues) + 1))}
        \cup AbsentFamily(MaxRowsNum, {"dti", DEFAULT_TARGET})
        \cup ObjectFamily(MaxRowsNum, {"revol_util", DEFAULT_TARGET})

CorrFamily ==
    {NumTable(rows, NumValues) : rows \in RowTables(MaxRowsCorr, 2 * (Len(NumValues) + 1))}
        \cup AbsentFamily(MaxRowsCorr, {"dti", "inq_fi", DEFAULT_TARGET})
        \cup ObjectFamily(MaxRowsCorr, {"revol_util", "inq_fi", DEFAULT_TARGET})

----------------------------------------------------------------------------
(* The state machine: construction, then any sequence of calls.            *)

NoCall == [op |-> "none"]

\* __init__: store the dataset reference and the target column name
Construct(df, target_col) == [df |-> df, target_col |-> target_col]

InitWith(family, builds) ==
    /\ \E p \in family : eda = Construct(MkDf(p), DEFAULT_TARGET)
    /\ given = eda
    /\ build \in builds
    /\ last = NoCall
    /\ memo = NoCall

\* a call of op with args that ended as r: the caller sees r.out, the object is r.self
Call(op, args, r, invoked) ==
    /\ last' = [op |-> op, args |-> args, out |-> r.out, invoked |-> invoked]
    /\ eda' = r.self
    /\ memo' = IF memo = NoCall THEN memo
               ELSE [memo EXCEPT !.since = IF @ < 2 THEN @ + 1 ELSE @]
    /\ UNCHANGED <<given, build>>

StructureSummary == Call("structure_summary", <<>>, structure_summary(eda), <<>>)

IncomeSummary == Call("income_summary", <<>>, income_summary(eda, build.ties), <<>>)

CategoricalFreqs ==
    \E max_levels \in 0..MaxLevels :
        Call("categorical_freqs", <<max_levels>>,
             categorical_freqs(eda, build.ties, max_levels), <<>>)

DefaultRateByCategory ==
    \E col \in {"home_ownership", "purpose", "addr_state"} :
        Call("default_rate_by_category", <<col>>, default_rate_by_category(eda, col), <<>>)

RunBorrowerEdaPipeline ==
    LET r == run_borrower_eda_pipeline(eda, build.ties)
    IN  Call("run_borrower_eda_pipeline", <<>>, r, r.invoked)

CreditStructureSummary ==
    Call("credit_structure_summary", <<>>, credit_structure_summary(eda), <<>>)

DefaultRateByBucket ==
    \E col \in {"dti", "revol_util"}, bins \in 2..MaxBins :
        Call("default_rate_by_bucket", <<col, bins>>,
             default_rate_by_bucket(eda, col, bins, build.observed), <<>>)

CorrelationWithDefault ==
    Call("correlation_with_default", <<>>, correlation_with_default(eda), <<>>)

CreditHistoryReport ==
    LET r == credit_history_report(eda, build.observed)
    IN  Call("credit_history_report", <<>>, r, r.invoked)

\* the caller keeps the result of the call just made
Snapshot ==
    /\ last # NoCall
    /\ memo' = [op |-> last.op, args |-> last.args, out |-> last.out, since |-> 0]
    /\ UNCHANGED <<eda, given, build, last>>

\* the calls on a BorrowerProfileEDA object
NextBorrower ==
    \/ StructureSummary
    \/ IncomeSummary
    \/ CategoricalFreqs
    \/ DefaultRateByCategory
    \/ RunBorrowerEdaPipeline

\* the calls on a CreditHistoryEDA object
NextCredit ==
    \/ CreditStructureSummary
    \/ DefaultRateByBucket
    \/ CorrelationWithDefault
    \/ CreditHistoryReport

Next == NextBorrower \/ NextCredit

\* the report methods, and a caller keeping a result
NextIdem ==
    \/ StructureSummary
    \/ IncomeSummary
    \/ CategoricalFreqs
    \/ DefaultRateByCategory
    \/ CreditStructureSummary
    \/ DefaultRateByBucket
    \/ CorrelationWithDefault
    \/ Snapshot

Init == InitWith(MainFamily, {b \in Builds : b.ties = "first_seen"})

InitIdem == InitWith(IdemFamily, {b \in Builds : b.ties = "first_seen" /\ ~b.observed})

InitBorrower == InitWith(BorrowerFamily, {b \in Builds : ~b.observed})

InitBucket == InitWith(BucketFamily, {b \in Builds : b.ties = "first_seen"})

InitCorr == InitWith(CorrFamily, {b \in Builds : b.ties = "first_seen" /\ ~b.observed})

\* both report objects over one dataset, methods and pipelines
Spec == Init /\ [][Next]_vars

\* the report methods of both objects, and a caller comparing results
SpecIdem == InitIdem /\ [][NextIdem]_vars

\* a BorrowerProfileEDA object over tables that vary the text columns
SpecBorrower == InitBorrower /\ [][NextBorrower]_vars

\* default_rate_by_bucket over tables that vary the numeric columns and the target
SpecBucket == InitBucket /\ [][DefaultRateByBucket]_vars

\* correlation_with_default over tables that vary the numeric columns and the target
SpecCorr == InitCorr /\ [][CorrelationWithDefault]_vars

----------------------------------------------------------------------------
(* Claims.                                                                 *)

IsPrefix(s, t) == Len(s) <= Len(t) /\ s = SubSeq(t, 1, Len(s))

Keys(dict) == [i \in 1..Len(dict) |-> dict[i][1]]

\* what the call of a pipeline that invoked the steps `invoked` of `steps` must
\* have returned, own(name) being the outcome of step name called on its own
PipelineEndsRight(steps, own(_)) ==
    /\ Len(last.invoked) >= 1
    /\ IsPrefix(last.invoked, steps)
    /\ \A j \in 1..(Len(last.invoked) - 1) : own(steps[j]).ok
    /\ IF last.out.ok
       THEN /\ last.invoked = steps
            /\ own(steps[Len(steps)]).ok
       ELSE /\ last.out = own(steps[Len(last.invoked)])
            /\ ~own(steps[Len(last.invoked)]).ok
            /\ DOMAIN last.out = {"ok", "error", "arg"}

OwnBorrowerStep(name) == borrower_eda_steps(eda, build.ties, name).out

OwnCreditStep(name) == CreditStep(eda, build.observed, name).out

\* C1: both pipelines invoke their steps one after another in declaration
\* order; when step i raises, the call ends with that step's own error, no
\* step after i is invoked and no result mapping, partial or whole, is returned
C1_PipelineAbortsAtFirstFailure ==
    /\ last.op = "run_borrower_eda_pipeline" =>
           PipelineEndsRight(BORROWER_STEPS, OwnBorrowerStep)
    /\ last.op = "credit_history_report" =>
           PipelineEndsRight(CREDIT_STEPS, OwnCreditStep)

\* a borrower pipeline call that failed at its fourth step, the fifth never invoked
C1_Witness ==
    /\ last.op = "run_borrower_eda_pipeline"
    /\ ~last.out.ok
    /\ last.invoked = SubSeq(BORROWER_STEPS, 1, 4)

\* the present values of column col of the dataset, and the rows that hold one
PresentValues(col) == {eda.df.cols[col].vals[i][1] :
                          i \in {j \in 1..NRows(eda.df) : ~IsNa(eda.df.cols[col].vals[j])}}

PresentCount(col) == Cardinality({j \in 1..NRows(eda.df) : ~IsNa(eda.df.cols[col].vals[j])})

\* the quantile edges 0/bins .. bins/bins of column col, as a set
EdgeSet(col, bins) ==
    {Quantile(dropna(eda.df.cols[col]), j, bins) : j \in 0..bins}

TotalLoans(rows) == SumSeq([i \in 1..Len(rows) |-> rows[i].n_loans])

BucketCallOnDiverseColumn ==
    /\ last.op = "default_rate_by_bucket"
    /\ last.out.ok
    /\ Cardinality(PresentValues(last.args[1])) >= last.args[2]

PairedRows(col) ==
    {j \in 1..NRows(eda.df) :
        ~IsNa(eda.df.cols[col].vals[j]) /\ ~IsNa(eda.df.cols[eda.target_col].vals[j])}

InUnitRange(r) == r.sign \in {-1, 0, 1} /\ 0 <= r.sq.num /\ r.sq.num <= r.sq.den

\* C10: correlation_with_default() returns one entry per column of
\* CREDIT_NUMERIC_COLS, in that order, none left out; each value lies in [-1, 1]
\* or is not-a-number, and is not-a-number when the column takes a single value
\* on the rows where it and the target are both present, or there are under two
C10_CorrelationIndexAndRange ==
    (last.op = "correlation_with_default" /\ last.out.ok) =>
        /\ Keys(last.out.value) = CREDIT_NUMERIC_COLS
        /\ \A i \in 1..Len(last.out.value) :
              LET col == last.out.value[i][1]
                  r   == last.out.value[i][2]
              IN  /\ ~r.nan => InUnitRange(r)
                  /\ Cardinality(PairedRows(col)) < 2 => r.nan
                  /\ Cardinality({eda.df.cols[col].vals[j] : j \in PairedRows(col)}) <= 1
                        => r.nan

\* a call that returned a not-a-number for one column and a negative
\* correlation, short of -1, for another
C10_Witness ==
    /\ last.op = "correlation_with_default"
    /\ last.out.ok
    /\ \E i \in 1..Len(last.out.value) : last.out.value[i][2].nan
    /\ \E i \in 1..Len(last.out.value) :
          LET r == last.out.value[i][2]
          IN  ~r.nan /\ r.sign = -1 /\ r.sq.num < r.sq.den

\* the number of missing cells of column col of the dataset
MissingCount(col) == Cardinality({j \in 1..NRows(eda.df) : IsNa(eda.df.cols[col].vals[j])})

AllPresent(columns) == \A i \in 1..Len(columns) : HasCol(eda.df, columns[i])

\* C3: on a dataset that holds every column of BORROWER_COLS, structure_summary()
\* returns one row per column of BORROWER_COLS, in that order, each with
\* missing_pct = n_missing / row count (not-a-number on no rows); with a column
\* absent the call fails
C3_StructureRows ==
    last.op = "structure_summary" =>
        IF AllPresent(BORROWER_COLS)
        THEN /\ last.out.ok
             /\ Len(last.out.value) = Len(BORROWER_COLS)
             /\ \A i \in 1..Len(BORROWER_COLS) :
                   LET row == last.out.value[i]
                   IN  /\ row.column = BORROWER_COLS[i]
                       /\ row.n_missing = MissingCount(BORROWER_COLS[i])
                       /\ row.missing_pct = Frac(row.n_missing, NRows(eda.df))
        ELSE ~last.out.ok

\* a returned table with a column missing in some rows and present in others
C3_Witness ==
    /\ last.op = "structure_summary"
    /\ last.out.ok
    /\ \E i \in 1..Len(last.out.value) :
          0 < last.out.value[i].n_missing /\ last.out.value[i].n_missing < NRows(eda.df)

\* a failed call: a borrower column is absent
C3_WitnessAbsent ==
    /\ last.op = "structure_summary"
    /\ ~last.out.ok
    /\ ~AllPresent(BORROWER_COLS)

TargetIsBinary ==
    /\ HasCol(eda.df, eda.target_col)
    /\ IsNumericDtype(eda.df.cols[eda.target_col].dtype)
    /\ \A j \in 1..NRows(eda.df) : eda.df.cols[eda.target_col].vals[j] \in {<<0>>, <<1>>}

\* C4: with the target encoded 0/1, default_rate_by_category(col) returns a
\* mapping whose keys are exactly the non-missing distinct values of col, every
\* value in [0, 1]
C4_CategoryKeysAndRange ==
    (last.op = "default_rate_by_category" /\ last.out.ok /\ TargetIsBinary) =>
        /\ DOMAIN last.out.value = PresentValues(last.args[1])
        /\ \A key \in DOMAIN last.out.value :
              LET rate == last.out.value[key]
              IN  ~rate.nan /\ 0 <= rate.num /\ rate.num <= rate.den

\* a mapping for a column with a missing cell, one rate strictly between 0 and 1
C4_Witness ==
    /\ last.op = "default_rate_by_category"
    /\ last.out.ok
    /\ TargetIsBinary
    /\ MissingCount(last.args[1]) > 0
    /\ \E key \in DOMAIN last.out.value :
          0 < last.out.value[key].num /\ last.out.value[key].num < last.out.value[key].den

ValidBorrowerDataset ==
    /\ AllPresent(BORROWER_COLS)
    /\ HasCol(eda.df, eda.target_col)
    /\ IsNumericDtype(eda.df.cols[eda.target_col].dtype)

Lookup(dict, key) == dict[CHOOSE i \in 1..Len(dict) : dict[i][1] = key][2]

\* C6: on a valid dataset run_borrower_eda_pipeline returns a mapping whose keys
\* are exactly structure, income, freqs, default_by_home_ownership and
\* default_by_purpose, in that order, each mapped to the result of its own step
C6_PipelineKeysAndResults ==
    last.op = "run_borrower_eda_pipeline" =>
        /\ ValidBorrowerDataset => last.out.ok
        /\ last.out.ok =>
              /\ Keys(last.out.value) =
                    << "structure", "income", "freqs", "default_by_home_ownership",
                       "default_by_purpose" >>
              /\ Lookup(last.out.value, "structure") = structure_summary(eda).out.value
              /\ Lookup(last.out.value, "income") = income_summary(eda, build.ties).out.value
              /\ Lookup(last.out.value, "freqs") =
                    categorical_freqs(eda, build.ties, 10).out.value
              /\ Lookup(last.out.value, "default_by_home_ownership") =
                    default_rate_by_category(eda, "home_ownership").out.value
              /\ Lookup(last.out.value, "default_by_purpose") =
                    default_rate_by_category(eda, "purpose").out.value

\* a returned mapping whose two default-rate entries differ
C6_Witness ==
    /\ last.op = "run_borrower_eda_pipeline"
    /\ last.out.ok
    /\ Lookup(last.out.value, "default_by_home_ownership") #
           Lookup(last.out.value, "default_by_purpose")

\* the number of cells of column col that hold value v
ValueCount(col, v) == Cardinality({j \in 1..NRows(eda.df) : eda.df.cols[col].vals[j] = <<v>>})

\* C9: categorical_freqs(max_levels=k) returns, for each of home_ownership,
\* addr_state and purpose, at most k (value, count) entries by descending
\* count, and they are the k most frequent non-missing values of the column
C9_TopLevels ==
    (last.op = "categorical_freqs" /\ last.out.ok) =>
        /\ Keys(last.out.value) = << "home_ownership", "addr_state", "purpose" >>
        /\ \A c \in 1..Len(last.out.value) :
              LET col     == last.out.value[c][1]
                  entries == last.out.value[c][2]
                  k       == last.args[1]
                  shown   == {entries[i][1] : i \in 1..Len(entries)}
              IN  /\ Len(entries) <= k
                  /\ Len(entries) = IF Cardinality(PresentValues(col)) < k
                                    THEN Cardinality(PresentValues(col)) ELSE k
                  /\ Cardinality(shown) = Len(entries)
                  /\ shown \subseteq PresentValues(col)
                  /\ \A i \in 1..Len(entries) : entries[i][2] = ValueCount(col, entries[i][1])
                  /\ \A i \in 1..(Len(entries) - 1) : entries[i][2] >= entries[i + 1][2]
                  /\ \A v \in PresentValues(col) \ shown :
                        \A i \in 1..Len(entries) : ValueCount(col, v) <= entries[i][2]

\* a call that cut a column of unequal counts down to fewer levels than it holds
C9_Witness ==
    /\ last.op = "categorical_freqs"
    /\ last.out.ok
    /\ last.args[1] >= 1
    /\ \E c \in 1..Len(last.out.value) :
          LET col     == last.out.value[c][1]
              entries == last.out.value[c][2]
          IN  /\ Len(entries) < Cardinality(PresentValues(col))
              /\ \E v \in PresentValues(col) : ValueCount(col, v) < entries[1][2]

\* C5 as stated: credit_structure_summary() returns exactly 28 rows, one per
\* column of CREDIT_NUMERIC_COLS in order, the universe having 28 columns
C5_Original ==
    (last.op = "credit_structure_summary" /\ last.out.ok) =>
        /\ Len(CREDIT_NUMERIC_COLS) = 28
        /\ Len(last.out.value) = 28
        /\ \A i \in 1..Len(last.out.value) : last.out.value[i].column = CREDIT_NUMERIC_COLS[i]

\* C5 amended: credit_structure_summary() returns exactly 29 rows, one per
\* column of CREDIT_NUMERIC_COLS in order, the universe having 29 columns
C5_OneRowPerCreditColumn ==
    (last.op = "credit_structure_summary" /\ last.out.ok) =>
        /\ Len(CREDIT_NUMERIC_COLS) = 29
        /\ Len(last.out.value) = 29
        /\ \A i \in 1..Len(last.out.value) : last.out.value[i].column = CREDIT_NUMERIC_COLS[i]

\* a returned table whose last row is the last column of the universe
C5_Witness ==
    /\ last.op = "credit_structure_summary"
    /\ last.out.ok
    /\ last.out.value[Len(last.out.value)].column = "collections_12_mths_ex_med"
    /\ \E i \in 1..Len(last.out.value) : last.out.value[i].n_missing > 0

\* C7: no report method and no pipeline function changes the dataset, the
\* target column name or what the report object holds, whether the call
\* returns or fails
C7_DatasetUntouched ==
    /\ eda = given
    /\ DOMAIN eda = {"df", "target_col"}

\* a report call that failed after a bucket step had run, the object as constructed
C7_Witness ==
    /\ last.op = "credit_history_report"
    /\ ~last.out.ok
    /\ Len(last.invoked) > 2
    /\ eda = given

\* C8: a report method called again with the same arguments on the same
\* object returns what it returned before, whatever was called in between
C8_SameCallSameResult ==
    (memo # NoCall /\ last.op = memo.op /\ last.args = memo.args) => last.out = memo.out

\* a kept result met again by the same call, another call made in between
C8_Witness ==
    /\ memo # NoCall
    /\ memo.since = 2
    /\ last.op = memo.op
    /\ last.args = memo.args
    /\ last.out = memo.out
    /\ last.out.ok

====
